---- MODULE Spec2Model ----
(***************************************************************************)
(* Multi-window task distribution of rpa-dreamina.                         *)
(*                                                                         *)
(* Spec   : MultiWindowManager (src/multi_window_manager.py): the shared   *)
(*          TaskQueue, one worker thread per WindowInstance and the        *)
(*          coordinator start_multi_window_processing, together with the   *)
(*          whole-file spreadsheet update mark_prompt_as_processed         *)
(*          (src/excel_processor.py).                                      *)
(* SpecPM : PointsMonitor.check_points / wait_for_points_refresh           *)
(*          (src/points_monitor.py) with its two module-level locks, the   *)
(*          shared cache and a clock.                                      *)
(*                                                                         *)
(* Threads interleave between any two accesses of shared data; code that   *)
(* touches only data of the running thread is folded into the step that    *)
(* precedes the next shared access.  Calls into the browser, the page and  *)
(* Playwright are the environment: every outcome the code distinguishes    *)
(* (value, None, False, exception) is a nondeterministic choice.  print()  *)
(* and the file reads/writes of pandas are taken to succeed.               *)
(***************************************************************************)
EXTENDS Integers, Sequences, FiniteSets, TLC

(* ------------------------------ bounds --------------------------------- *)
NumWindows == 2
NumTasks == 2
MaxRestarts == 2
NumThreads == 2
NumPages == 2
MaxTicks == 2
NumFiles == 2
MaxRows == 2
MaxStartRow == 2
MaxLoads == 2
MaxRetries == 3
NumBrowsers == 3
NumPrompts == 3

Windows == 1..NumWindows
Threads == 1..NumThreads
Pages == 1..NumPages
Tasks == 1..NumTasks

(* ------------------------ program constants ---------------------------- *)
NoTask == 0
NoPoints == -1
_cache_expiry_seconds == 10
\* error_handling.max_consecutive_errors as configured for the modelled run
\* (the default is 5, lines 160 and 423); a small value lets a window raise
\* that many times with the tasks there are
max_consecutive_errors == 2
min_points_threshold == 4

\* balances the page can show: one below the threshold, one at it
Balances == {min_points_threshold - 1, min_points_threshold}

StatusValues == {"idle", "working", "paused", "error"}

\* row of a task: tasks 1,2 are rows of spreadsheet 1, tasks 3,4 of 2, ...
excel_file_path(t) == (t + 1) \div 2

VARIABLES
    queue,               \* TaskQueue.queue
    completed_tasks,     \* TaskQueue.completed_tasks
    failed_tasks,        \* TaskQueue.failed_tasks
    running,             \* MultiWindowManager.running
    total_tasks,         \* MultiWindowManager.total_tasks
    enabled,             \* config points_monitoring.enabled
    cpc,                 \* position of start_multi_window_processing
    started,             \* number of worker threads started so far
    stats_pending,       \* stats['pending'] read by the coordinator
    pc,                  \* position of each worker thread
    status,              \* WindowInstance.status
    current_task,        \* WindowInstance.current_task
    task,                \* local variable task of _worker_thread
    error_count,         \* WindowInstance.error_count
    points_balance,      \* WindowInstance.account_info['points_balance']
    playwright_instance, \* WindowInstance.playwright_instance
    pw_live,             \* Playwright instances started and not stopped
    pw_started,          \* number of instances each window has started
    browser,             \* WindowInstance.browser: none / open / closed
    page,                \* WindowInstance.page: none / open / closed
    excel,               \* rows whose status cell holds the status text
    df,                  \* DataFrame read by mark_prompt_as_processed
    restarts,            \* history: failed restarts since the window was up
    raised,              \* history: iterations in a row that ended in the
                         \* except clause
    checked,             \* history: check_points was called for task
    held,                \* history: task dequeued, outcome not yet recorded
    pm_pc,               \* position of each thread in check_points
    pm_op,               \* the call it makes: none / check / refresh
    pm_page,             \* page_id = id(page) of the call
    pm_time,             \* current_time of the call
    pm_result,           \* result of the call
    pm_had,              \* history: the cache entry the call found
    pm_how,              \* history: cached / scraped / probe_abort
    now,                 \* time.time()
    cache,               \* _points_cache
    check_lock,          \* holder of _points_check_lock
    cache_lock,          \* holder of _points_cache_lock
    scraped_from,        \* history: balances read from the page object
                         \* that has the id now
    scraped_under,       \* history: balances ever read under the id
    sheets,              \* the spreadsheet files: rows of <<prompt, status>>
    status_text,         \* excel_settings["status_text"]
    start_row,           \* excel_settings["start_row"]
    xl_pc,               \* position of get_unprocessed_prompts
    xl_file, xl_row,     \* the file and the row its loops are at
    seen_prompts_globally,
    unprocessed_prompts, \* the list it returns: <<prompt, file, row>>
    marked,              \* history: rows mark_prompt_as_processed wrote
    loads,               \* history: number of loads started
    setup_pc,            \* position of the _setup_window call under study
    retry_count,         \* its local retry_count
    max_retries,         \* its local max_retries, from the configuration
    setup_result,        \* what the call returned: none / True / False
    attempts,            \* history: passes of its while loop entered
    entry_error_count,   \* history: error_count when the call began
    passed,              \* history: steps the current pass completed
    failed_by,           \* history: how passes failed, value / exception
    task_queue,          \* SimpleDreaminaManager.task_queue, a list
    task_queue_lock,     \* holder of task_queue_lock
    sd_running,          \* SimpleDreaminaManager.running
    sd_pc,               \* position of each _window_worker thread
    sd_task,             \* its local task
    results,             \* results["success"], results["failed"]
    recorded,            \* history: <<window, task, outcome>> recorded
    gave,                \* history: <<window, task>> given back
    given_back           \* history: tasks given back and not handed out
                         \* again, the latest first

wres == <<playwright_instance, pw_live, pw_started, browser, page>>
wvars == <<pc, status, current_task, task, error_count, points_balance,
           wres, df, restarts, raised, checked, held>>
qvars == <<queue, completed_tasks, failed_tasks>>
cvars == <<running, total_tasks, enabled, cpc, started, stats_pending>>
pmvars == <<pm_pc, pm_op, pm_page, pm_time, pm_result, pm_had, pm_how,
            now, cache, check_lock, cache_lock, scraped_from, scraped_under>>
xlvars == <<sheets, status_text, start_row, xl_pc, xl_file, xl_row,
            seen_prompts_globally, unprocessed_prompts, marked, loads>>
swvars == <<setup_pc, retry_count, max_retries, setup_result, attempts,
            entry_error_count, passed, failed_by>>
sdvars == <<task_queue, task_queue_lock, sd_running, sd_pc, sd_task,
            results, recorded, gave, given_back>>
xvars == <<xlvars, swvars, sdvars>>
vars == <<qvars, cvars, wvars, excel, pmvars, xvars>>
reads == <<scraped_from, scraped_under>>

NoPlaywright == <<0, 0>>

Range(s) == {s[i] : i \in 1..Len(s)}
Count(s, x) == Cardinality({i \in 1..Len(s) : s[i] = x})

(* ------------------------------ TaskQueue ------------------------------ *)
\* queue.Queue is first in, first out; put and get are atomic
add_taskDropped(q, t) == q
add_task(q, t) == Append(q, t)

\* get_task: <<returned task, remaining queue>>; the first component is
\* NoTask when the queue stayed empty for the timeout (queue.Empty)
get_taskPeek(q) ==
    IF q = <<>> THEN <<NoTask, q>> ELSE <<Head(q), q>>
get_task(q) ==
    IF q = <<>> THEN <<NoTask, q>> ELSE <<Head(q), Tail(q)>>

mark_completed(list, t) == Append(list, t)
mark_failed(list, t) == Append(list, t)

(* ------------------------------- Init ---------------------------------- *)
\* after MultiWindowManager.__init__: windows as WindowInstance.__init__
\* leaves them, an empty TaskQueue, no thread started
MainInit ==
    /\ queue = <<>>
    /\ completed_tasks = <<>>
    /\ failed_tasks = <<>>
    /\ running = FALSE
    /\ total_tasks = 0
    /\ cpc = "load"
    /\ started = 0
    /\ stats_pending = 0
    /\ pc = [w \in Windows |-> "unstarted"]
    /\ status = [w \in Windows |-> "idle"]
    /\ current_task = [w \in Windows |-> NoTask]
    /\ task = [w \in Windows |-> NoTask]
    /\ error_count = [w \in Windows |-> 0]
    /\ points_balance = [w \in Windows |-> NoPoints]
    /\ playwright_instance = [w \in Windows |-> NoPlaywright]
    /\ pw_live = {}
    /\ pw_started = [w \in Windows |-> 0]
    /\ browser = [w \in Windows |-> "none"]
    /\ page = [w \in Windows |-> "none"]
    /\ excel = {}
    /\ df = [w \in Windows |-> {}]
    /\ restarts = [w \in Windows |-> 0]
    /\ raised = [w \in Windows |-> 0]
    /\ checked = [w \in Windows |-> FALSE]
    /\ held = [w \in Windows |-> NoTask]

(* --------------------------- _setup_window ----------------------------- *)
\* _setup_window reads and writes only fields of its own window, and
\* writes status, the one field another thread reads, once, as its last
\* statement; the call is one step.  Its retry loop makes a bounded number
\* of passes; the fields it leaves behind are those of the last pass that
\* assigned them, so the outcome names the result of the call:
\*   ok            a pass succeeded, lines 295-298
\*   start_raises  sync_playwright().start() raised in every pass
\*   open_fail     no pass got further than openBrowser / connect_over_cdp
\*   no_contexts   connected, browser.contexts empty (or a later raise)
\*   page_none     navigate_and_setup_dreamina_page returned None
\*   title_fail    page title missing, wrong, or title() raised
SetupOutcomes == {"ok", "start_raises", "open_fail", "no_contexts",
                  "page_none", "title_fail"}

\* where _setup_window returns to, <<on True, on False>>: lines 335-337,
\* and through _restart_window lines 344-348 and 368-370
SetupReturnSkipsGate(at) ==
    CASE at = "setup_init" -> <<"loop", "exited">>
      [] at = "setup_loop" -> <<"loop", "loop">>
      [] at = "setup_conn" -> <<"generate", "loop">>
SetupReturn(at) ==
    CASE at = "setup_init" -> <<"loop", "exited">>
      [] at = "setup_loop" -> <<"loop", "loop">>
      [] at = "setup_conn" -> <<"check_points", "conn_failed">>

\* sync_playwright().start(): a new instance, owned by the calling window
StartPlaywright(w) == <<w, pw_started[w] + 1>>

\* lines 203-205: an instance is started only when the window has none
NeedsPlaywright(w) == playwright_instance[w] = NoPlaywright

_setup_window(w, outcome) ==
    /\ pc[w] \in {"setup_init", "setup_loop", "setup_conn"}
    /\ outcome = "start_raises" => playwright_instance[w] = NoPlaywright
    /\ IF NeedsPlaywright(w) /\ outcome # "start_raises"
       THEN /\ playwright_instance' =
                   [playwright_instance EXCEPT ![w] = StartPlaywright(w)]
            /\ pw_live' = pw_live \cup {StartPlaywright(w)}
            /\ pw_started' = [pw_started EXCEPT ![w] = @ + 1]
       ELSE UNCHANGED <<playwright_instance, pw_live, pw_started>>
    /\ browser' = IF outcome \in {"ok", "no_contexts", "page_none",
                                  "title_fail"}
                  THEN [browser EXCEPT ![w] = "open"] ELSE browser
    /\ page' = CASE outcome \in {"ok", "title_fail"} ->
                        [page EXCEPT ![w] = "open"]
                 [] outcome = "page_none" -> [page EXCEPT ![w] = "none"]
                 [] OTHER -> page
    /\ IF outcome = "ok"
       THEN \* lines 295-298
            /\ status' = [status EXCEPT ![w] = "idle"]
            \* line 453: _restart_window clears error_count
            /\ error_count' = IF pc[w] = "setup_init" THEN error_count
                              ELSE [error_count EXCEPT ![w] = 0]
            /\ restarts' = [restarts EXCEPT ![w] = 0]
            /\ pc' = [pc EXCEPT ![w] = SetupReturn(pc[w])[1]]
       ELSE \* lines 307-309 and 311-313
            /\ status' = [status EXCEPT ![w] = "error"]
            /\ error_count' = [error_count EXCEPT ![w] = @ + 1]
            /\ restarts' = IF pc[w] = "setup_init" THEN restarts
                           ELSE [restarts EXCEPT ![w] = @ + 1]
            /\ pc' = [pc EXCEPT ![w] = SetupReturn(pc[w])[2]]
    /\ UNCHANGED <<current_task, task, points_balance, df, raised, checked,
                   held>>
    /\ UNCHANGED <<qvars, cvars, excel, pmvars, xvars>>

(* -------------------------- _restart_window ---------------------------- *)
\* lines 442-446: close page and browser, closeBrowser; any raise makes
\* _restart_window return False without calling _setup_window
TeardownOutcomes == {"ok", "page_close_raises", "browser_close_raises"}

Teardown(w, outcome, setup_at, on_false) ==
    /\ outcome = "page_close_raises" => page[w] = "open"
    /\ outcome = "browser_close_raises" => browser[w] # "none"
    /\ page' = IF outcome # "page_close_raises" /\ page[w] = "open"
               THEN [page EXCEPT ![w] = "closed"] ELSE page
    /\ browser' = IF outcome = "ok" /\ browser[w] # "none"
                  THEN [browser EXCEPT ![w] = "closed"] ELSE browser
    /\ IF outcome = "ok"
       THEN /\ pc' = [pc EXCEPT ![w] = setup_at]
            /\ UNCHANGED restarts
       ELSE /\ pc' = [pc EXCEPT ![w] = on_false]
            /\ restarts' = [restarts EXCEPT ![w] = @ + 1]
    /\ UNCHANGED <<playwright_instance, pw_live, pw_started, raised>>

(* --------------------------- _worker_thread ---------------------------- *)
\* line 339: the run was stopped, the loop ends
LoopStopped(w) ==
    /\ pc[w] = "loop"
    /\ ~running
    /\ pc' = [pc EXCEPT ![w] = "cleanup"]
    /\ UNCHANGED <<status, current_task, task, error_count, points_balance,
                   wres, df, restarts, raised, checked, held>>
    /\ UNCHANGED <<qvars, cvars, excel, pmvars, xvars>>

\* lines 342-348: a window in error is restarted
LoopRestart(w, outcome) ==
    /\ pc[w] = "loop"
    /\ running
    /\ status[w] = "error"
    /\ restarts[w] < MaxRestarts
    /\ Teardown(w, outcome, "setup_loop", "loop")
    /\ UNCHANGED <<status, current_task, task, error_count, points_balance,
                   df, checked, held>>
    /\ UNCHANGED <<qvars, cvars, excel, pmvars, xvars>>

\* lines 350-352: a paused window sleeps
LoopPaused(w) ==
    /\ pc[w] = "loop"
    /\ running
    /\ status[w] = "paused"
    /\ UNCHANGED vars

\* lines 342 and 350: neither branch ends the iteration with continue
TakesTaskUnlessError(s) == s # "error"
TakesTask(s) == s \notin {"error", "paused"}

LoopContinue(w) ==
    /\ pc[w] = "loop"
    /\ running
    /\ TakesTask(status[w])
    /\ pc' = [pc EXCEPT ![w] = "get_task"]
    /\ UNCHANGED <<status, current_task, task, error_count, points_balance,
                   wres, df, restarts, raised, checked, held>>
    /\ UNCHANGED <<qvars, cvars, excel, pmvars, xvars>>

\* lines 355-357
GetTask(w) ==
    /\ pc[w] = "get_task"
    /\ task' = [task EXCEPT ![w] = get_task(queue)[1]]
    /\ held' = [held EXCEPT ![w] = get_task(queue)[1]]
    /\ queue' = get_task(queue)[2]
    /\ pc' = [pc EXCEPT ![w] =
                 IF get_task(queue)[1] = NoTask THEN "loop"
                 ELSE "set_working"]
    /\ UNCHANGED <<status, current_task, error_count, points_balance,
                   wres, df, restarts, raised, checked>>
    /\ UNCHANGED <<completed_tasks, failed_tasks, cvars, excel, pmvars,
                   xvars>>

\* lines 359-361
SetWorking(w) ==
    /\ pc[w] = "set_working"
    /\ status' = [status EXCEPT ![w] = "working"]
    /\ current_task' = [current_task EXCEPT ![w] = task[w]]
    /\ pc' = [pc EXCEPT ![w] = "check_conn"]
    /\ UNCHANGED <<task, error_count, points_balance, wres, df, restarts,
                   raised, checked, held>>
    /\ UNCHANGED <<qvars, cvars, excel, pmvars, xvars>>

\* line 366: check_page_connection answers True only for an open page
CheckConnOk(w) ==
    /\ pc[w] = "check_conn"
    /\ page[w] = "open"
    /\ pc' = [pc EXCEPT ![w] = "check_points"]
    /\ UNCHANGED <<status, current_task, task, error_count, points_balance,
                   wres, df, restarts, raised, checked, held>>
    /\ UNCHANGED <<qvars, cvars, excel, pmvars, xvars>>

\* lines 367-368: the connection is lost, the window is restarted
CheckConnLost(w, outcome) ==
    /\ pc[w] = "check_conn"
    /\ Teardown(w, outcome, "setup_conn", "conn_failed")
    /\ UNCHANGED <<status, current_task, task, error_count, points_balance,
                   df, checked, held>>
    /\ UNCHANGED <<qvars, cvars, excel, pmvars, xvars>>

\* lines 369-370: the restart failed, the task is failed; continue
ConnFailed(w) ==
    /\ pc[w] = "conn_failed"
    /\ failed_tasks' = mark_failed(failed_tasks, task[w])
    /\ held' = [held EXCEPT ![w] = NoTask]
    /\ task' = [task EXCEPT ![w] = NoTask]
    /\ raised' = [raised EXCEPT ![w] = 0]
    /\ pc' = [pc EXCEPT ![w] = "loop"]
    /\ UNCHANGED <<status, current_task, error_count, points_balance,
                   wres, df, restarts, checked>>
    /\ UNCHANGED <<queue, completed_tasks, cvars, excel, pmvars, xvars>>

\* lines 375 and 380: the balance was read and is below the threshold
InsufficientPointsNever(balance) == FALSE
InsufficientPointsOrUnread(balance) == balance < min_points_threshold
InsufficientPoints(balance) ==
    balance # NoPoints /\ balance < min_points_threshold

\* lines 373-382: the credit gate.  balance is what check_points returns
\* for the window's page: NoPoints (None) or a number
CheckPoints(w, balance) ==
    /\ pc[w] = "check_points"
    /\ IF enabled
       THEN /\ checked' = [checked EXCEPT ![w] = TRUE]
            /\ points_balance' = [points_balance EXCEPT ![w] = balance]
            /\ IF InsufficientPoints(balance)
               THEN /\ status' = [status EXCEPT ![w] = "paused"]
                    /\ pc' = [pc EXCEPT ![w] = "requeue"]
               ELSE /\ pc' = [pc EXCEPT ![w] = "generate"]
                    /\ UNCHANGED status
       ELSE /\ balance = NoPoints
            /\ pc' = [pc EXCEPT ![w] = "generate"]
            /\ UNCHANGED <<checked, points_balance, status>>
    /\ UNCHANGED <<current_task, task, error_count, wres, df, restarts,
                   raised, held>>
    /\ UNCHANGED <<qvars, cvars, excel, pmvars, xvars>>

\* lines 383-384: the task goes back into the queue; continue
Requeue(w) ==
    /\ pc[w] = "requeue"
    /\ queue' = add_task(queue, task[w])
    /\ held' = [held EXCEPT ![w] = NoTask]
    /\ task' = [task EXCEPT ![w] = NoTask]
    /\ points_balance' = [points_balance EXCEPT ![w] = NoPoints]
    /\ checked' = [checked EXCEPT ![w] = FALSE]
    /\ raised' = [raised EXCEPT ![w] = 0]
    /\ pc' = [pc EXCEPT ![w] = "loop"]
    /\ UNCHANGED <<status, current_task, error_count, wres, df, restarts>>
    /\ UNCHANGED <<completed_tasks, failed_tasks, cvars, excel, pmvars,
                   xvars>>

\* lines 387-405: generate_image_on_page and the record of its result
GenerateOutcomes == {"images", "no_images", "raises"}

Generate(w, outcome) ==
    /\ pc[w] = "generate"
    /\ CASE outcome = "images" ->
              /\ completed_tasks' = mark_completed(completed_tasks, task[w])
              /\ held' = [held EXCEPT ![w] = NoTask]
              /\ pc' = [pc EXCEPT ![w] = "xl_read"]
              /\ UNCHANGED failed_tasks
         [] outcome = "no_images" ->
              /\ failed_tasks' = mark_failed(failed_tasks, task[w])
              /\ held' = [held EXCEPT ![w] = NoTask]
              /\ pc' = [pc EXCEPT ![w] = "finish"]
              /\ UNCHANGED completed_tasks
         [] outcome = "raises" ->
              /\ pc' = [pc EXCEPT ![w] = "except"]
              /\ UNCHANGED <<completed_tasks, failed_tasks, held>>
    /\ raised' = IF outcome = "raises" THEN raised
                 ELSE [raised EXCEPT ![w] = 0]
    /\ UNCHANGED <<status, current_task, task, error_count, points_balance,
                   wres, df, restarts, checked>>
    /\ UNCHANGED <<queue, cvars, excel, pmvars, xvars>>

(* ---------------------- mark_prompt_as_processed ----------------------- *)
\* excel_processor.py line 129: the whole sheet is read into df
RowsOf(f) == {t \in Tasks : excel_file_path(t) = f}

ExcelRead(w) ==
    /\ pc[w] = "xl_read"
    /\ df' = [df EXCEPT ![w] = excel \cap RowsOf(excel_file_path(task[w]))]
    /\ pc' = [pc EXCEPT ![w] = "xl_write"]
    /\ UNCHANGED <<status, current_task, task, error_count, points_balance,
                   wres, restarts, raised, checked, held>>
    /\ UNCHANGED <<qvars, cvars, excel, pmvars, xvars>>

\* lines 137-140: one cell is set in df and df replaces the whole file
to_excel(old, f, frame) == (old \ RowsOf(f)) \cup frame

ExcelWrite(w) ==
    /\ pc[w] = "xl_write"
    /\ excel' = to_excel(excel, excel_file_path(task[w]),
                         df[w] \cup {task[w]})
    /\ df' = [df EXCEPT ![w] = {}]
    /\ pc' = [pc EXCEPT ![w] = "finish"]
    /\ UNCHANGED <<status, current_task, task, error_count, points_balance,
                   wres, restarts, raised, checked, held>>
    /\ UNCHANGED <<qvars, cvars, pmvars, xvars>>

\* lines 407-412: the window is idle again; sleep, next iteration
Finish(w) ==
    /\ pc[w] = "finish"
    /\ status' = [status EXCEPT ![w] = "idle"]
    /\ current_task' = [current_task EXCEPT ![w] = NoTask]
    /\ task' = [task EXCEPT ![w] = NoTask]
    /\ points_balance' = [points_balance EXCEPT ![w] = NoPoints]
    /\ checked' = [checked EXCEPT ![w] = FALSE]
    /\ pc' = [pc EXCEPT ![w] = "loop"]
    /\ UNCHANGED <<error_count, wres, df, restarts, raised, held>>
    /\ UNCHANGED <<qvars, cvars, excel, pmvars, xvars>>

\* line 424
TooManyErrors(n) == n >= max_consecutive_errors

\* lines 414-430: the except clause of the loop body
Except(w) ==
    /\ pc[w] = "except"
    /\ status' = [status EXCEPT ![w] = "error"]
    /\ error_count' = [error_count EXCEPT ![w] = @ + 1]
    /\ IF current_task[w] # NoTask
       THEN /\ failed_tasks' = mark_failed(failed_tasks, current_task[w])
            /\ held' = IF held[w] = current_task[w]
                       THEN [held EXCEPT ![w] = NoTask] ELSE held
       ELSE UNCHANGED <<failed_tasks, held>>
    /\ current_task' = [current_task EXCEPT ![w] = NoTask]
    /\ task' = [task EXCEPT ![w] = NoTask]
    /\ points_balance' = [points_balance EXCEPT ![w] = NoPoints]
    /\ checked' = [checked EXCEPT ![w] = FALSE]
    /\ pc' = [pc EXCEPT ![w] =
                 IF TooManyErrors(error_count[w] + 1)
                 THEN "cleanup" ELSE "loop"]
    /\ raised' = [raised EXCEPT ![w] = @ + 1]
    /\ UNCHANGED <<wres, df, restarts>>
    /\ UNCHANGED <<queue, completed_tasks, cvars, excel, pmvars, xvars>>

(* --------------------------- _cleanup_window --------------------------- *)
\* lines 317-328; a raise inside the try block skips the rest of it.
\* When stop() raises the instance stays referenced, stopped or not.
CleanupOutcomes == {"ok", "page_close_raises", "browser_close_raises",
                    "stop_raises_live", "stop_raises_stopped"}

_cleanup_window(w, outcome) ==
    /\ pc[w] = "cleanup"
    /\ outcome = "page_close_raises" => page[w] = "open"
    /\ outcome = "browser_close_raises" => browser[w] # "none"
    /\ outcome \in {"stop_raises_live", "stop_raises_stopped"} =>
           playwright_instance[w] # NoPlaywright
    /\ page' = IF outcome # "page_close_raises" /\ page[w] = "open"
               THEN [page EXCEPT ![w] = "closed"] ELSE page
    /\ browser' = IF outcome \notin {"page_close_raises",
                                     "browser_close_raises"}
                     /\ browser[w] # "none"
                  THEN [browser EXCEPT ![w] = "closed"] ELSE browser
    /\ pw_live' = IF outcome \in {"ok", "stop_raises_stopped"}
                  THEN pw_live \ {playwright_instance[w]} ELSE pw_live
    /\ playwright_instance' =
           IF outcome = "ok"
           THEN [playwright_instance EXCEPT ![w] = NoPlaywright]
           ELSE playwright_instance
    /\ pc' = [pc EXCEPT ![w] = "ended"]
    /\ UNCHANGED <<status, current_task, task, error_count, points_balance,
                   pw_started, df, restarts, raised, checked, held>>
    /\ UNCHANGED <<qvars, cvars, excel, pmvars, xvars>>

(* -------------------- start_multi_window_processing -------------------- *)
\* lines 482-498: the unprocessed prompts are queued, the run starts
LoadTasks ==
    /\ cpc = "load"
    /\ queue' = [i \in 1..NumTasks |-> i]
    /\ total_tasks' = NumTasks
    /\ running' = TRUE
    /\ cpc' = "spawn"
    /\ UNCHANGED <<completed_tasks, failed_tasks, enabled, started,
                   stats_pending, wvars, excel, pmvars, xvars>>

\* lines 502-518: the worker threads are started one after the other
Spawn ==
    /\ cpc = "spawn"
    /\ IF started < NumWindows
       THEN /\ pc' = [pc EXCEPT ![started + 1] = "setup_init"]
            /\ started' = started + 1
            /\ UNCHANGED cpc
       ELSE /\ cpc' = "wait"
            /\ UNCHANGED <<pc, started>>
    /\ UNCHANGED <<status, current_task, task, error_count, points_balance,
                   wres, df, restarts, raised, checked, held>>
    /\ UNCHANGED <<qvars, running, total_tasks, enabled, stats_pending,
                   excel, pmvars, xvars>>

\* line 534: get_stats
GetStats ==
    /\ cpc = "wait"
    /\ stats_pending' = Len(queue)
    /\ cpc' = "decide"
    /\ UNCHANGED <<qvars, running, total_tasks, enabled, started, wvars,
                   excel, pmvars, xvars>>

\* lines 535-551: the two ways out of the wait loop, then the finally
\* clause stops the run
active_windows == {w \in Windows : status[w] \in {"idle", "working"}}

Decide ==
    /\ cpc = "decide"
    /\ IF \/ stats_pending = 0 /\ \A w \in active_windows : status[w] = "idle"
          \/ active_windows = {}
       THEN /\ running' = FALSE
            /\ cpc' = "done"
       ELSE /\ cpc' = "wait"
            /\ UNCHANGED running
    /\ stats_pending' = 0
    /\ UNCHANGED <<qvars, total_tasks, enabled, started, wvars, excel,
                   pmvars, xvars>>

(***************************************************************************)
(* PointsMonitor (src/points_monitor.py).  Threads call check_points or    *)
(* wait_for_points_refresh on pages; a page stands for its id(page), the   *)
(* key of _points_cache.  The clock advances in steps of half the expiry.  *)
(***************************************************************************)
TickSeconds == _cache_expiry_seconds \div 2
NoEntry == <<>>
NoThread == 0

PMInit ==
    /\ pm_pc = [t \in Threads |-> "idle"]
    /\ pm_op = [t \in Threads |-> "none"]
    /\ pm_page = [t \in Threads |-> 1]
    /\ pm_time = [t \in Threads |-> 0]
    /\ pm_result = [t \in Threads |-> NoPoints]
    /\ pm_had = [t \in Threads |-> <<>>]
    /\ pm_how = [t \in Threads |-> "none"]
    /\ now = 0
    /\ cache = [p \in Pages |-> NoEntry]
    /\ check_lock = NoThread
    /\ cache_lock = NoThread
    /\ scraped_from = [p \in Pages |-> {}]
    /\ scraped_under = [p \in Pages |-> {}]

\* line 69: the entry is used while it is younger than the expiry
IsFreshInclusive(entry, current_time) ==
    current_time - entry[2] <= _cache_expiry_seconds
IsFresh(entry, current_time) ==
    current_time - entry[2] < _cache_expiry_seconds

\* threading.Lock: acquire blocks while another thread holds the lock
CanAcquireAlways(lock) == TRUE
CanAcquire(lock) == lock = NoThread

PMTick ==
    /\ now < MaxTicks * TickSeconds
    /\ now' = now + TickSeconds
    /\ UNCHANGED <<pm_pc, pm_op, pm_page, pm_time, pm_result, pm_had,
                   pm_how, cache, check_lock, cache_lock, reads>>
    /\ UNCHANGED <<qvars, cvars, wvars, excel, xvars>>

\* lines 61-63: a call of check_points(page) starts
PMCall(t, p) ==
    /\ pm_pc[t] = "idle"
    /\ pm_op' = [pm_op EXCEPT ![t] = "check"]
    /\ pm_page' = [pm_page EXCEPT ![t] = p]
    /\ pm_time' = [pm_time EXCEPT ![t] = now]
    /\ pm_result' = [pm_result EXCEPT ![t] = NoPoints]
    /\ pm_had' = [pm_had EXCEPT ![t] = <<>>]
    /\ pm_how' = [pm_how EXCEPT ![t] = "none"]
    /\ pm_pc' = [pm_pc EXCEPT ![t] = "cache_lock"]
    /\ UNCHANGED <<now, cache, check_lock, cache_lock, reads>>
    /\ UNCHANGED <<qvars, cvars, wvars, excel, xvars>>

\* line 66: with _points_cache_lock
PMCacheAcquire(t) ==
    /\ pm_pc[t] = "cache_lock"
    /\ CanAcquire(cache_lock)
    /\ cache_lock' = t
    /\ pm_pc' = [pm_pc EXCEPT ![t] = "cache_check"]
    /\ UNCHANGED <<pm_op, pm_page, pm_time, pm_result, pm_had, pm_how, now,
                   cache, check_lock, reads>>
    /\ UNCHANGED <<qvars, cvars, wvars, excel, xvars>>

\* lines 67-74, and the release of the cache lock
PMCacheCheck(t) ==
    /\ pm_pc[t] = "cache_check"
    /\ pm_had' = [pm_had EXCEPT ![t] = <<cache[pm_page[t]]>>]
    /\ IF cache[pm_page[t]] = NoEntry
       THEN /\ pm_pc' = [pm_pc EXCEPT ![t] = "probe"]
            /\ UNCHANGED <<cache, pm_result, pm_how>>
       ELSE IF IsFresh(cache[pm_page[t]], pm_time[t])
       THEN /\ pm_result' = [pm_result EXCEPT ![t] = cache[pm_page[t]][1]]
            /\ pm_how' = [pm_how EXCEPT ![t] = "cached"]
            /\ pm_pc' = [pm_pc EXCEPT ![t] = "return"]
            /\ UNCHANGED cache
       ELSE /\ cache' = [cache EXCEPT ![pm_page[t]] = NoEntry]
            /\ pm_pc' = [pm_pc EXCEPT ![t] = "probe"]
            /\ UNCHANGED <<pm_result, pm_how>>
    /\ cache_lock' = NoThread
    /\ UNCHANGED <<pm_op, pm_page, pm_time, now, check_lock, reads>>
    /\ UNCHANGED <<qvars, cvars, wvars, excel, xvars>>

\* lines 77-84: page.url as a probe for access from a foreign thread
ProbeOutcomes == {"ok", "greenlet_error", "other_error"}

PMProbe(t, outcome) ==
    /\ pm_pc[t] = "probe"
    /\ IF outcome = "greenlet_error"
       THEN /\ pm_how' = [pm_how EXCEPT ![t] = "probe_abort"]
            /\ pm_pc' = [pm_pc EXCEPT ![t] = "return"]
       ELSE /\ pm_pc' = [pm_pc EXCEPT ![t] = "check_lock"]
            /\ UNCHANGED pm_how
    /\ UNCHANGED <<pm_op, pm_page, pm_time, pm_result, pm_had, now, cache,
                   check_lock, cache_lock, reads>>
    /\ UNCHANGED <<qvars, cvars, wvars, excel, xvars>>

\* line 87: with _points_check_lock
PMCheckAcquire(t) ==
    /\ pm_pc[t] = "check_lock"
    /\ CanAcquire(check_lock)
    /\ check_lock' = t
    /\ pm_pc' = [pm_pc EXCEPT ![t] = "scrape"]
    /\ UNCHANGED <<pm_op, pm_page, pm_time, pm_result, pm_had, pm_how, now,
                   cache, cache_lock, reads>>
    /\ UNCHANGED <<qvars, cvars, wvars, excel, xvars>>

\* the balance a page shows, when it can be read
PageBalance(p) == min_points_threshold - 2 + p

\* lines 88-92 and 104-111: _safe_extract_points returns the balance or
\* None (NoPoints); a raise is turned into None
PMScrape(t, read) ==
    /\ pm_pc[t] = "scrape"
    /\ read \in {PageBalance(pm_page[t]), NoPoints}
    /\ pm_result' = [pm_result EXCEPT ![t] = read]
    /\ pm_how' = [pm_how EXCEPT ![t] = "scraped"]
    /\ scraped_from' = IF read # NoPoints
                       THEN [scraped_from EXCEPT ![pm_page[t]] = @ \cup {read}]
                       ELSE scraped_from
    /\ scraped_under' = IF read # NoPoints
                        THEN [scraped_under EXCEPT ![pm_page[t]] =
                                 @ \cup {read}]
                        ELSE scraped_under
    /\ pm_pc' = [pm_pc EXCEPT ![t] =
                    IF read # NoPoints THEN "cache_write_lock" ELSE "unlock"]
    /\ UNCHANGED <<pm_op, pm_page, pm_time, pm_had, now, cache, check_lock,
                   cache_lock>>
    /\ UNCHANGED <<qvars, cvars, wvars, excel, xvars>>

\* line 96: with _points_cache_lock, inside the check lock
PMWriteAcquire(t) ==
    /\ pm_pc[t] = "cache_write_lock"
    /\ CanAcquire(cache_lock)
    /\ cache_lock' = t
    /\ pm_pc' = [pm_pc EXCEPT ![t] = "cache_write"]
    /\ UNCHANGED <<pm_op, pm_page, pm_time, pm_result, pm_had, pm_how, now,
                   cache, check_lock, reads>>
    /\ UNCHANGED <<qvars, cvars, wvars, excel, xvars>>

\* lines 97-100, and the release of the cache lock
CacheKey(t) == pm_page[t]

PMCacheWrite(t) ==
    /\ pm_pc[t] = "cache_write"
    /\ cache' = [cache EXCEPT ![CacheKey(t)] = <<pm_result[t], pm_time[t]>>]
    /\ cache_lock' = NoThread
    /\ pm_pc' = [pm_pc EXCEPT ![t] = "unlock"]
    /\ UNCHANGED <<pm_op, pm_page, pm_time, pm_result, pm_had, pm_how, now,
                   check_lock, reads>>
    /\ UNCHANGED <<qvars, cvars, wvars, excel, xvars>>

\* line 102 / 111: return leaves the with block of the check lock
PMUnlock(t) ==
    /\ pm_pc[t] = "unlock"
    /\ check_lock' = NoThread
    /\ pm_pc' = [pm_pc EXCEPT ![t] = "return"]
    /\ UNCHANGED <<pm_op, pm_page, pm_time, pm_result, pm_had, pm_how, now,
                   cache, cache_lock, reads>>
    /\ UNCHANGED <<qvars, cvars, wvars, excel, xvars>>

\* check_points has returned pm_result.  A plain call ends here; in
\* wait_for_points_refresh (lines 406-413, expected_points = None) a
\* balance ends the wait, None leads to another round or to the timeout
PMReturn(t, again) ==
    /\ pm_pc[t] = "return"
    /\ again => pm_op[t] = "refresh" /\ pm_result[t] = NoPoints
    /\ pm_pc' = [pm_pc EXCEPT ![t] = IF again THEN "reload_lock" ELSE "idle"]
    /\ pm_op' = IF again THEN pm_op ELSE [pm_op EXCEPT ![t] = "none"]
    /\ pm_page' = IF again THEN pm_page ELSE [pm_page EXCEPT ![t] = 1]
    /\ pm_time' = [pm_time EXCEPT ![t] = 0]
    /\ pm_result' = [pm_result EXCEPT ![t] = NoPoints]
    /\ pm_had' = [pm_had EXCEPT ![t] = <<>>]
    /\ pm_how' = [pm_how EXCEPT ![t] = "none"]
    /\ UNCHANGED <<now, cache, check_lock, cache_lock, reads>>
    /\ UNCHANGED <<qvars, cvars, wvars, excel, xvars>>

\* lines 394-397: wait_for_points_refresh(page) starts
PMRefresh(t, p) ==
    /\ pm_pc[t] = "idle"
    /\ pm_op' = [pm_op EXCEPT ![t] = "refresh"]
    /\ pm_page' = [pm_page EXCEPT ![t] = p]
    /\ pm_result' = [pm_result EXCEPT ![t] = NoPoints]
    /\ pm_had' = [pm_had EXCEPT ![t] = <<>>]
    /\ pm_how' = [pm_how EXCEPT ![t] = "none"]
    /\ pm_pc' = [pm_pc EXCEPT ![t] = "reload_lock"]
    /\ UNCHANGED <<pm_time, now, cache, check_lock, cache_lock,
                   reads>>
    /\ UNCHANGED <<qvars, cvars, wvars, excel, xvars>>

\* line 400: with _points_check_lock
PMReloadAcquire(t) ==
    /\ pm_pc[t] = "reload_lock"
    /\ CanAcquire(check_lock)
    /\ check_lock' = t
    /\ pm_pc' = [pm_pc EXCEPT ![t] = "reload"]
    /\ UNCHANGED <<pm_op, pm_page, pm_time, pm_result, pm_had, pm_how, now,
                   cache, cache_lock, reads>>
    /\ UNCHANGED <<qvars, cvars, wvars, excel, xvars>>

\* lines 402-406 and 415-417: page.reload, the lock is released, then
\* check_points is called; a raise of reload ends the round (or the wait)
ReloadOutcomes == {"ok", "raises_retry", "raises_timeout"}

PMReload(t, outcome) ==
    /\ pm_pc[t] = "reload"
    /\ check_lock' = NoThread
    /\ pm_time' = [pm_time EXCEPT ![t] = IF outcome = "ok" THEN now ELSE 0]
    /\ pm_had' = [pm_had EXCEPT ![t] = <<>>]
    /\ pm_how' = [pm_how EXCEPT ![t] = "none"]
    /\ pm_result' = [pm_result EXCEPT ![t] = NoPoints]
    /\ pm_pc' = [pm_pc EXCEPT ![t] =
                    CASE outcome = "ok" -> "cache_lock"
                      [] outcome = "raises_retry" -> "reload_lock"
                      [] outcome = "raises_timeout" -> "idle"]
    /\ pm_op' = IF outcome = "raises_timeout"
                THEN [pm_op EXCEPT ![t] = "none"] ELSE pm_op
    /\ pm_page' = IF outcome = "raises_timeout"
                  THEN [pm_page EXCEPT ![t] = 1] ELSE pm_page
    /\ UNCHANGED <<now, cache, cache_lock, reads>>
    /\ UNCHANGED <<qvars, cvars, wvars, excel, xvars>>

\* id(page) is unique among live objects only: once no call holds the
\* page, the object can be freed and a new page can get the same id
PMNewPage(p) ==
    /\ \A t \in Threads : pm_pc[t] # "idle" => pm_page[t] # p
    \* a page nothing was read from is like the page that replaces it
    /\ scraped_from[p] # {}
    /\ scraped_from' = [scraped_from EXCEPT ![p] = {}]
    /\ UNCHANGED <<pm_pc, pm_op, pm_page, pm_time, pm_result, pm_had,
                   pm_how, now, cache, check_lock, cache_lock,
                   scraped_under>>
    /\ UNCHANGED <<qvars, cvars, wvars, excel, xvars>>

(***************************************************************************)
(* get_unprocessed_prompts and mark_prompt_as_processed                    *)
(* (src/excel_processor.py) on the spreadsheet files of a root directory,  *)
(* run by one thread: load, mark some of the returned rows, load again.    *)
(* A cell is NaN or a text; "done " and " a" carry surrounding whitespace. *)
(***************************************************************************)
NaN == "NaN"
\* line 204: the second text a status cell is compared with
ProblemMarker == "problem"

Files == 1..NumFiles
\* the first file has MaxRows rows, every further file one row fewer
RowsIn(f) == IF f = 1 THEN MaxRows ELSE MaxRows - 1

PromptCells == {NaN, "a", " a", "b"}
StatusTexts == {"done", "done "}
StatusCells == {NaN, ProblemMarker} \cup StatusTexts

\* str.strip() on the texts of the model
strip(s) ==
    CASE s = " a" -> "a"
      [] s = "done " -> "done"
      [] OTHER -> s

\* pd.notna
notna(cell) == cell # NaN

\* line 199: the stripped prompt was met before
AlreadySeenNever(prompt, seen) == FALSE
AlreadySeen(prompt, seen) == prompt \in seen

\* line 204: the status cell says the row was processed
IsProcessed(status_cell, text) ==
    notna(status_cell) /\ strip(status_cell) \in {text, ProblemMarker}

\* lines 129-140 run alone: the status cell of the row gets the text
SetStatus(sh, f, r, text) == [sh EXCEPT ![f][r][2] = text]

XLInit ==
    /\ sheets \in [Files -> UNION {[1..n -> PromptCells \X StatusCells] :
                                      n \in 1..MaxRows}]
    /\ \A f \in Files : Len(sheets[f]) = RowsIn(f)
    /\ status_text \in StatusTexts
    /\ start_row \in 1..MaxStartRow
    /\ xl_pc = "idle"
    /\ xl_file = 1
    /\ xl_row = 1
    /\ seen_prompts_globally = {}
    /\ unprocessed_prompts = <<>>
    /\ marked = {}
    /\ loads = 0

\* the spreadsheet variables while another part of the program is studied
XLIdle ==
    /\ sheets = [f \in Files |-> <<>>]
    /\ status_text = "done"
    /\ start_row = 1
    /\ xl_pc = "idle"
    /\ xl_file = 1
    /\ xl_row = 1
    /\ seen_prompts_globally = {}
    /\ unprocessed_prompts = <<>>
    /\ marked = {}
    /\ loads = 0

\* lines 156-168: a call of get_unprocessed_prompts starts
XLLoad ==
    /\ xl_pc \in {"idle", "loaded"}
    /\ loads < MaxLoads
    /\ loads' = loads + 1
    /\ unprocessed_prompts' = <<>>
    /\ seen_prompts_globally' = {}
    /\ xl_file' = 1
    /\ xl_row' = 1
    /\ xl_pc' = "scan"
    /\ UNCHANGED <<sheets, status_text, start_row, marked>>
    /\ UNCHANGED <<qvars, cvars, wvars, excel, pmvars, swvars, sdvars>>

\* lines 185-228: one pass of the loop over the rows of the file;
\* generated is the answer of check_if_prompt_generated_in_subfolder
XLRow(generated) ==
    /\ xl_pc = "scan"
    /\ xl_file <= NumFiles
    /\ LET row == sheets[xl_file][xl_row]
           current_prompt_clean == strip(row[1])
       IN  IF xl_row < start_row \/ ~notna(row[1])
              \/ AlreadySeen(current_prompt_clean, seen_prompts_globally)
           THEN /\ generated = FALSE
                /\ UNCHANGED <<sheets, seen_prompts_globally,
                               unprocessed_prompts, marked>>
           ELSE IF IsProcessed(row[2], status_text)
           THEN /\ generated = FALSE
                /\ seen_prompts_globally' =
                       seen_prompts_globally \cup {current_prompt_clean}
                /\ UNCHANGED <<sheets, unprocessed_prompts, marked>>
           ELSE IF generated
           THEN /\ sheets' = SetStatus(sheets, xl_file, xl_row, status_text)
                /\ marked' = marked \cup {<<xl_file, xl_row>>}
                /\ seen_prompts_globally' =
                       seen_prompts_globally \cup {current_prompt_clean}
                /\ UNCHANGED unprocessed_prompts
           ELSE /\ unprocessed_prompts' =
                       Append(unprocessed_prompts,
                              <<current_prompt_clean, xl_file, xl_row>>)
                /\ seen_prompts_globally' =
                       seen_prompts_globally \cup {current_prompt_clean}
                /\ UNCHANGED <<sheets, marked>>
    /\ IF xl_row < Len(sheets[xl_file])
       THEN xl_row' = xl_row + 1 /\ UNCHANGED <<xl_file, xl_pc>>
       ELSE xl_row' = 1 /\ xl_file' = xl_file + 1 /\ UNCHANGED xl_pc
    /\ UNCHANGED <<status_text, start_row, loads>>
    /\ UNCHANGED <<qvars, cvars, wvars, excel, pmvars, swvars, sdvars>>

\* line 243: the list is returned
XLReturn ==
    /\ xl_pc = "scan"
    /\ xl_file > NumFiles
    /\ xl_pc' = "loaded"
    /\ xl_file' = 1
    /\ UNCHANGED <<sheets, status_text, start_row, xl_row,
                   seen_prompts_globally, unprocessed_prompts, marked, loads>>
    /\ UNCHANGED <<qvars, cvars, wvars, excel, pmvars, swvars, sdvars>>

\* mark_prompt_as_processed for a task of the returned list, as a worker
\* calls it after the task's images were generated
XLMark(i) ==
    /\ xl_pc = "loaded"
    /\ i \in 1..Len(unprocessed_prompts)
    /\ <<unprocessed_prompts[i][2], unprocessed_prompts[i][3]>> \notin marked
    /\ sheets' = SetStatus(sheets, unprocessed_prompts[i][2],
                           unprocessed_prompts[i][3], status_text)
    /\ marked' = marked \cup {<<unprocessed_prompts[i][2],
                               unprocessed_prompts[i][3]>>}
    /\ UNCHANGED <<status_text, start_row, xl_pc, xl_file, xl_row,
                   seen_prompts_globally, unprocessed_prompts, loads>>
    /\ UNCHANGED <<qvars, cvars, wvars, excel, pmvars, swvars, sdvars>>

(***************************************************************************)
(* _setup_window, pass by pass                                             *)
(*                                                                         *)
(* One call of _setup_window for one window, each statement group of the   *)
(* while loop a step.  The window's fields are the variables of the        *)
(* worker model; the call's locals and its history are added.             *)
(***************************************************************************)
SetupSites == {"setup_init", "setup_loop", "setup_conn"}
SetupSteps == {"open", "connect", "contexts", "page", "title"}

\* the window whose thread is inside _setup_window
InSetup(w) == pc[w] \in SetupSites

\* the call's variables while another part of the program is studied
SetupIdle ==
    /\ setup_pc = "idle"
    /\ retry_count = 0
    /\ max_retries = 0
    /\ setup_result = "none"
    /\ attempts = 0
    /\ entry_error_count = 0
    /\ passed = {}
    /\ failed_by = {}

\* lines 195-196, for the window as its caller hands it over: line 335 a
\* fresh window; lines 344 and 368 a window whose page and browser
\* _restart_window has just closed, in status "error" with errors counted,
\* or in status "working", with the playwright instance of its first call
SetupInit ==
    /\ \E w \in Windows, at \in SetupSites, n \in 1..2,
          closed \in {"none", "closed"} :
           /\ pc = [v \in Windows |-> IF v = w THEN at ELSE "unstarted"]
           /\ status = [v \in Windows |->
                           IF v # w \/ at = "setup_init" THEN "idle"
                           ELSE IF at = "setup_loop" THEN "error"
                           ELSE "working"]
           /\ error_count = [v \in Windows |->
                                IF v = w /\ at = "setup_loop" THEN n ELSE 0]
           /\ playwright_instance = [v \in Windows |->
                                        IF v = w /\ at # "setup_init"
                                        THEN <<v, 1>>
                                        ELSE NoPlaywright]
           /\ pw_live = IF at = "setup_init" THEN {} ELSE {<<w, 1>>}
           /\ pw_started = [v \in Windows |->
                               IF v = w /\ at # "setup_init" THEN 1 ELSE 0]
           /\ browser = [v \in Windows |->
                            IF v = w /\ at # "setup_init" THEN "closed"
                            ELSE "none"]
           /\ page = [v \in Windows |->
                         IF v = w /\ at # "setup_init" THEN closed ELSE "none"]
           /\ at # "setup_loop" => n = 1
           /\ at = "setup_init" => closed = "none"
           /\ entry_error_count = error_count[w]
    /\ queue = <<>>
    /\ completed_tasks = <<>>
    /\ failed_tasks = <<>>
    /\ running = TRUE
    /\ total_tasks = 0
    /\ cpc = "wait"
    /\ started = NumWindows
    /\ stats_pending = 0
    /\ current_task = [w \in Windows |-> NoTask]
    /\ task = [w \in Windows |-> NoTask]
    /\ points_balance = [w \in Windows |-> NoPoints]
    /\ excel = {}
    /\ df = [w \in Windows |-> {}]
    /\ restarts = [w \in Windows |-> 0]
    /\ raised = [w \in Windows |-> 0]
    /\ checked = [w \in Windows |-> FALSE]
    /\ held = [w \in Windows |-> NoTask]
    /\ max_retries \in 0..MaxRetries
    /\ retry_count = 0
    /\ setup_pc = "while"
    /\ setup_result = "none"
    /\ attempts = 0
    /\ passed = {}
    /\ failed_by = {}

\* what every step of the call leaves alone
SetupFrame ==
    /\ UNCHANGED <<pc, current_task, task, points_balance, df, restarts,
                   raised, checked, held>>
    /\ UNCHANGED <<max_retries, entry_error_count>>
    /\ UNCHANGED <<qvars, cvars, excel, pmvars, xlvars, sdvars>>

\* the step succeeded: on to the next statement group of the same pass
SetupNext(step, next) ==
    /\ setup_pc' = next
    /\ passed' = passed \cup {step}
    /\ UNCHANGED <<retry_count, setup_result, attempts, failed_by, status,
                   error_count>>

\* "retry_count += 1; time.sleep(5); continue", as at lines 211-213
SetupRetry(kind) ==
    /\ setup_pc' = "while"
    /\ retry_count' = retry_count + 1
    /\ failed_by' = failed_by \cup {kind}
    /\ UNCHANGED <<setup_result, attempts, passed, status, error_count>>

\* an exception no inner handler catches reaches line 300
SetupRaised ==
    /\ setup_pc' = "handler"
    /\ failed_by' = failed_by \cup {"exception"}
    /\ UNCHANGED <<retry_count, setup_result, attempts, passed, status,
                   error_count>>

\* line 198
LoopTestInclusive(count, limit) == count <= limit
LoopTest(count, limit) == count < limit

\* line 198, and lines 311-313 when the loop is left
SetupWhile(w) ==
    /\ InSetup(w)
    /\ setup_pc = "while"
    /\ IF LoopTest(retry_count, max_retries)
       THEN /\ setup_pc' = "start"
            /\ attempts' = attempts + 1
            /\ passed' = {}
            /\ UNCHANGED <<status, error_count, setup_result>>
       ELSE /\ status' = [status EXCEPT ![w] = "error"]
            /\ error_count' = [error_count EXCEPT ![w] = @ + 1]
            /\ setup_result' = "False"
            /\ setup_pc' = "returned"
            /\ UNCHANGED <<attempts, passed>>
    /\ UNCHANGED <<retry_count, failed_by, wres>>
    /\ SetupFrame

\* lines 203-205
SetupStart(w, outcome) ==
    /\ InSetup(w)
    /\ setup_pc = "start"
    /\ outcome \in {"ok", "raises"}
    /\ outcome = "raises" => NeedsPlaywright(w)
    /\ IF NeedsPlaywright(w) /\ outcome = "ok"
       THEN /\ playwright_instance' =
                   [playwright_instance EXCEPT ![w] = StartPlaywright(w)]
            /\ pw_live' = pw_live \cup {StartPlaywright(w)}
            /\ pw_started' = [pw_started EXCEPT ![w] = @ + 1]
       ELSE UNCHANGED <<playwright_instance, pw_live, pw_started>>
    /\ IF outcome = "ok"
       THEN /\ setup_pc' = "open"
            /\ UNCHANGED <<retry_count, setup_result, attempts, passed,
                           failed_by, status, error_count>>
       ELSE SetupRaised
    /\ UNCHANGED <<browser, page>>
    /\ SetupFrame

\* lines 208-231: openBrowser and the debug address in its answer
SetupOpen(w, outcome) ==
    /\ InSetup(w)
    /\ setup_pc = "open"
    /\ CASE outcome = "ok" -> SetupNext("open", "connect")
         [] outcome = "no_success" -> SetupRetry("value")
         [] outcome = "no_address" -> SetupRetry("value")
         [] outcome = "raises" -> SetupRaised
    /\ UNCHANGED wres
    /\ SetupFrame

\* lines 234-240: connect_over_cdp inside its own try
SetupConnect(w, outcome) ==
    /\ InSetup(w)
    /\ setup_pc = "connect"
    /\ CASE outcome = "ok" ->
              /\ SetupNext("connect", "contexts")
              /\ browser' = [browser EXCEPT ![w] = "open"]
         [] outcome = "raises" ->
              /\ SetupRetry("exception")
              /\ UNCHANGED browser
    /\ UNCHANGED <<playwright_instance, pw_live, pw_started, page>>
    /\ SetupFrame

\* lines 242-258: the first context, the other tabs closed
SetupContexts(w, outcome) ==
    /\ InSetup(w)
    /\ setup_pc = "contexts"
    /\ CASE outcome = "ok" -> SetupNext("contexts", "page")
         [] outcome = "empty" -> SetupRetry("value")
         [] outcome = "raises" -> SetupRaised
    /\ UNCHANGED wres
    /\ SetupFrame

\* lines 261-268: navigate_and_setup_dreamina_page
SetupPage(w, outcome) ==
    /\ InSetup(w)
    /\ setup_pc = "page"
    /\ CASE outcome = "ok" ->
              /\ SetupNext("page", "title")
              /\ page' = [page EXCEPT ![w] = "open"]
         [] outcome = "none" ->
              /\ SetupRetry("value")
              /\ page' = [page EXCEPT ![w] = "none"]
         [] outcome = "raises" ->
              /\ SetupRaised
              /\ UNCHANGED page
    /\ UNCHANGED <<playwright_instance, pw_live, pw_started, browser>>
    /\ SetupFrame

\* lines 271-298: the load wait may time out; the title check, inside its
\* own try, decides; on success the call returns True
SetupTitle(w, outcome) ==
    /\ InSetup(w)
    /\ setup_pc = "title"
    /\ CASE outcome = "ok" ->
              /\ status' = [status EXCEPT ![w] = "idle"]
              /\ setup_result' = "True"
              /\ setup_pc' = "returned"
              /\ passed' = passed \cup {"title"}
              /\ UNCHANGED <<retry_count, attempts, failed_by, error_count>>
         [] outcome = "wrong" -> SetupRetry("value")
         [] outcome = "raises" -> SetupRetry("exception")
    /\ UNCHANGED wres
    /\ SetupFrame

\* lines 300-309: the except clause of the loop body
SetupHandler(w) ==
    /\ InSetup(w)
    /\ setup_pc = "handler"
    /\ retry_count' = retry_count + 1
    /\ IF retry_count + 1 < max_retries
       THEN /\ setup_pc' = "while"
            /\ UNCHANGED <<status, error_count, setup_result>>
       ELSE /\ status' = [status EXCEPT ![w] = "error"]
            /\ error_count' = [error_count EXCEPT ![w] = @ + 1]
            /\ setup_result' = "False"
            /\ setup_pc' = "returned"
    /\ UNCHANGED <<attempts, passed, failed_by, wres>>
    /\ SetupFrame

(***************************************************************************)
(* SimpleDreaminaManager, parallel mode                                    *)
(*                                                                         *)
(* _parallel_multi_window_processing copies the prompts into task_queue   *)
(* and starts one _window_worker thread per browser id.  A step is what   *)
(* a thread does between two points where another thread can run and     *)
(* see or change task_queue, the lock or running.                        *)
(***************************************************************************)
browser_ids == 1..NumBrowsers
prompts_data_list == [i \in 1..NumPrompts |-> i]

\* the variables while another part of the program is studied
SDIdle ==
    /\ task_queue = <<>>
    /\ task_queue_lock = NoThread
    /\ sd_running = FALSE
    /\ sd_pc = [w \in browser_ids |-> "idle"]
    /\ sd_task = [w \in browser_ids |-> NoTask]
    /\ results = [success |-> 0, failed |-> 0]
    /\ recorded = {}
    /\ gave = {}
    /\ given_back = <<>>

\* line 83, lines 239-252: running is set, the list is filled, the
\* threads are started
SDInit ==
    /\ task_queue = prompts_data_list
    /\ task_queue_lock = NoThread
    /\ sd_running = TRUE
    /\ sd_pc = [w \in browser_ids |-> "start"]
    /\ sd_task = [w \in browser_ids |-> NoTask]
    /\ results = [success |-> 0, failed |-> 0]
    /\ recorded = {}
    /\ gave = {}
    /\ given_back = <<>>

SDFrame == UNCHANGED <<qvars, cvars, wvars, excel, pmvars, xlvars, swvars>>

\* lines 430-432: stop()
SDStop ==
    /\ sd_running
    /\ sd_running' = FALSE
    /\ UNCHANGED <<task_queue, task_queue_lock, sd_pc, sd_task, results,
                   recorded, gave, given_back>>
    /\ SDFrame

\* lines 289-326: browser and page are set up; a failure is counted in
\* results["failed"] and ends the thread
SDSetup(w, ok) ==
    /\ sd_pc[w] = "start"
    /\ IF ok
       THEN /\ sd_pc' = [sd_pc EXCEPT ![w] = "loop"]
            /\ UNCHANGED results
       ELSE /\ sd_pc' = [sd_pc EXCEPT ![w] = "ended"]
            /\ results' = [results EXCEPT !.failed = @ + 1]
    /\ UNCHANGED <<task_queue, task_queue_lock, sd_running, sd_task,
                   recorded, gave, given_back>>
    /\ SDFrame

\* line 336: while self.running
SDLoop(w) ==
    /\ sd_pc[w] = "loop"
    /\ sd_pc' = [sd_pc EXCEPT ![w] = IF sd_running THEN "acquire"
                                     ELSE "ended"]
    /\ UNCHANGED <<task_queue, task_queue_lock, sd_running, sd_task,
                   results, recorded, gave, given_back>>
    /\ SDFrame

\* line 339: with self.task_queue_lock
SDAcquire(w) ==
    /\ sd_pc[w] = "acquire"
    /\ CanAcquire(task_queue_lock)
    /\ task_queue_lock' = w
    /\ sd_pc' = [sd_pc EXCEPT ![w] = "pop"]
    /\ UNCHANGED <<task_queue, sd_running, sd_task, results, recorded,
                   gave, given_back>>
    /\ SDFrame

\* list.pop(0): <<the item removed, the list left>>
pop0Keeps(list) == <<Head(list), list>>
pop0(list) == <<Head(list), Tail(list)>>

\* list.insert(0, item)
insert0(list, item) == <<item>> \o list

\* lines 340-345: the head of the list is taken, the lock released; with
\* the list empty the loop ends
SDPop(w) ==
    /\ sd_pc[w] = "pop"
    /\ IF task_queue # <<>>
       THEN /\ sd_task' = [sd_task EXCEPT ![w] = pop0(task_queue)[1]]
            /\ task_queue' = pop0(task_queue)[2]
            /\ given_back' = SelectSeq(given_back,
                                 LAMBDA t : t # pop0(task_queue)[1])
            /\ sd_pc' = [sd_pc EXCEPT ![w] = "check"]
       ELSE /\ sd_pc' = [sd_pc EXCEPT ![w] = "ended"]
            /\ UNCHANGED <<sd_task, task_queue, given_back>>
    /\ task_queue_lock' = NoThread
    /\ UNCHANGED <<sd_running, results, recorded, gave>>
    /\ SDFrame

\* line 353
BelowTwo(points) == points # NoPoints /\ points < 2

\* lines 352-353: points is what check_points returns for the page
SDCheck(w, points) ==
    /\ sd_pc[w] = "check"
    /\ sd_pc' = [sd_pc EXCEPT ![w] = IF BelowTwo(points) THEN "give_back"
                                     ELSE "generate"]
    /\ UNCHANGED <<task_queue, task_queue_lock, sd_running, sd_task,
                   results, recorded, gave, given_back>>
    /\ SDFrame

\* lines 356-361: the task is put back at the head of the list under the
\* lock, and the loop is left
SDGiveBack(w) ==
    /\ sd_pc[w] = "give_back"
    /\ CanAcquire(task_queue_lock)
    /\ task_queue' = insert0(task_queue, sd_task[w])
    /\ gave' = gave \cup {<<w, sd_task[w]>>}
    /\ given_back' = <<sd_task[w]>> \o given_back
    /\ sd_task' = [sd_task EXCEPT ![w] = NoTask]
    /\ sd_pc' = [sd_pc EXCEPT ![w] = "ended"]
    /\ UNCHANGED <<task_queue_lock, sd_running, results, recorded>>
    /\ SDFrame

\* lines 364-406: generate_image_on_page and the record of its result;
\* no images and a raise are both counted as failed
SDGenerate(w, outcome) ==
    /\ sd_pc[w] = "generate"
    /\ IF outcome = "images"
       THEN /\ results' = [results EXCEPT !.success = @ + 1]
            /\ recorded' = recorded \cup {<<w, sd_task[w], "success">>}
       ELSE /\ results' = [results EXCEPT !.failed = @ + 1]
            /\ recorded' = recorded \cup {<<w, sd_task[w], "failed">>}
    /\ sd_task' = [sd_task EXCEPT ![w] = NoTask]
    /\ sd_pc' = [sd_pc EXCEPT ![w] = "loop"]
    /\ UNCHANGED <<task_queue, task_queue_lock, sd_running, gave,
                   given_back>>
    /\ SDFrame

(* --------------------------- specifications ---------------------------- *)
\* points_monitoring.enabled is read from user_config.json
Init == MainInit /\ enabled \in BOOLEAN /\ PMInit /\ XLIdle /\ SetupIdle /\ SDIdle

\* the steps of start_multi_window_processing
Coordinator ==
    \/ LoadTasks
    \/ Spawn
    \/ GetStats
    \/ Decide

\* the steps of the thread _worker_thread(w)
Worker(w) ==
    \/ \E o \in SetupOutcomes : _setup_window(w, o)
    \/ LoopStopped(w)
    \/ \E o \in TeardownOutcomes : LoopRestart(w, o)
    \/ LoopPaused(w)
    \/ LoopContinue(w)
    \/ GetTask(w)
    \/ SetWorking(w)
    \/ CheckConnOk(w)
    \/ \E o \in TeardownOutcomes : CheckConnLost(w, o)
    \/ ConnFailed(w)
    \/ \E b \in Balances \cup {NoPoints} : CheckPoints(w, b)
    \/ Requeue(w)
    \/ \E o \in GenerateOutcomes : Generate(w, o)
    \/ ExcelRead(w)
    \/ ExcelWrite(w)
    \/ Finish(w)
    \/ Except(w)
    \/ \E o \in CleanupOutcomes : _cleanup_window(w, o)

Next ==
    \/ Coordinator
    \/ \E w \in Windows : Worker(w)

Spec == Init /\ [][Next]_vars

\* fair scheduling: the coordinator and every worker thread keep running,
\* and every call they make returns
Fairness ==
    /\ WF_vars(Coordinator)
    /\ \A w \in Windows : WF_vars(Worker(w))

SpecFair == Spec /\ Fairness

NextPM ==
    \/ PMTick
    \/ \E p \in Pages : PMNewPage(p)
    \/ \E t \in Threads :
          \/ \E p \in Pages : PMCall(t, p)
          \/ \E p \in Pages : PMRefresh(t, p)
          \/ PMCacheAcquire(t)
          \/ PMCacheCheck(t)
          \/ \E o \in ProbeOutcomes : PMProbe(t, o)
          \/ PMCheckAcquire(t)
          \/ \E r \in {PageBalance(p) : p \in Pages} \cup {NoPoints} :
                PMScrape(t, r)
          \/ PMWriteAcquire(t)
          \/ PMCacheWrite(t)
          \/ PMUnlock(t)
          \/ \E a \in BOOLEAN : PMReturn(t, a)
          \/ PMReloadAcquire(t)
          \/ \E o \in ReloadOutcomes : PMReload(t, o)

InitPM == MainInit /\ enabled = TRUE /\ PMInit /\ XLIdle /\ SetupIdle /\ SDIdle

SpecPM == InitPM /\ [][NextPM]_vars

NextXL ==
    \/ XLLoad
    \/ \E g \in BOOLEAN : XLRow(g)
    \/ XLReturn
    \/ \E i \in 1..(NumFiles * MaxRows) : XLMark(i)

InitXL == MainInit /\ enabled = TRUE /\ PMInit /\ XLInit /\ SetupIdle /\ SDIdle

SpecXL == InitXL /\ [][NextXL]_vars

\* the steps of one _setup_window call
NextSetup ==
    \E w \in Windows :
        \/ SetupWhile(w)
        \/ \E o \in {"ok", "raises"} : SetupStart(w, o)
        \/ \E o \in {"ok", "no_success", "no_address", "raises"} :
               SetupOpen(w, o)
        \/ \E o \in {"ok", "raises"} : SetupConnect(w, o)
        \/ \E o \in {"ok", "empty", "raises"} : SetupContexts(w, o)
        \/ \E o \in {"ok", "none", "raises"} : SetupPage(w, o)
        \/ \E o \in {"ok", "wrong", "raises"} : SetupTitle(w, o)
        \/ SetupHandler(w)

InitSetup == SetupInit /\ enabled = TRUE /\ PMInit /\ XLIdle /\ SDIdle

\* the thread inside the call keeps running, and every call it makes
\* returns or raises
SpecSetup == InitSetup /\ [][NextSetup]_vars /\ WF_vars(NextSetup)

\* stop() and the steps of the _window_worker threads
NextSD ==
    \/ SDStop
    \/ \E w \in browser_ids :
           \/ \E ok \in BOOLEAN : SDSetup(w, ok)
           \/ SDLoop(w)
           \/ SDAcquire(w)
           \/ SDPop(w)
           \/ \E points \in {NoPoints, 1, 2} : SDCheck(w, points)
           \/ SDGiveBack(w)
           \/ \E o \in GenerateOutcomes : SDGenerate(w, o)

InitSD == MainInit /\ enabled = TRUE /\ PMInit /\ XLIdle /\ SetupIdle /\ SDInit

SpecSD == InitSD /\ [][NextSD]_vars

(***************************************************************************)
(* Properties of MultiWindowManager, checked under Spec                    *)
(***************************************************************************)
Recorded == Range(completed_tasks) \cup Range(failed_tasks)
InFlight(t) == Cardinality({w \in Windows : held[w] = t})
Places(t) == Count(queue, t) + InFlight(t) + Count(completed_tasks, t)
             + Count(failed_tasks, t)

\* C1: once the tasks are loaded every task is in exactly one place --
\* pending in the queue, held by exactly one worker, in completed_tasks or
\* in failed_tasks -- so pending + in-flight + completed + failed equals
\* total_tasks
C1_EveryTaskInOnePlace ==
    cpc # "load" =>
        /\ \A t \in Tasks : Places(t) = 1
        /\ Len(queue) + Cardinality({w \in Windows : held[w] # NoTask})
             + Len(completed_tasks) + Len(failed_tasks) = total_tasks

\* every task is recorded, some as completed and some as failed
C1_Witness ==
    /\ Len(completed_tasks) + Len(failed_tasks) = total_tasks
    /\ total_tasks > 0
    /\ completed_tasks # <<>>
    /\ failed_tasks # <<>>

\* C2: a get_task step hands the head of the queue to the calling worker
\* alone and removes it, or returns None and leaves the empty queue as it
\* is; an add_task step appends the task; nothing else changes the queue
C2_QueueThreadSafe ==
    [][ /\ \A w \in Windows :
             (pc[w] = "get_task" /\ pc'[w] # "get_task") =>
                 /\ \A v \in Windows \ {w} : task'[v] = task[v]
                 /\ IF queue = <<>>
                    THEN task'[w] = NoTask /\ queue' = queue
                         /\ pc'[w] = "loop"
                    ELSE task'[w] = Head(queue) /\ queue' = Tail(queue)
        /\ \A w \in Windows :
             (pc[w] = "requeue" /\ pc'[w] # "requeue") =>
                 queue' = Append(queue, task[w])
        /\ (queue' # queue /\ cpc # "load") =>
              \E w \in Windows : pc[w] \in {"get_task", "requeue"}
                                 /\ pc'[w] # pc[w]
      ]_vars

\* a worker has put its task back and is paused; the queue is empty
\* again, one task is recorded and another worker holds the other one, so
\* the task that was put back has been handed out once more
C2_Witness ==
    \E w, v \in Windows :
        /\ w # v
        /\ status[w] = "paused" /\ pc[w] = "loop"
        /\ held[v] # NoTask
        /\ queue = <<>>
        /\ Len(completed_tasks) + Len(failed_tasks) = NumTasks - 1

\* C3: with monitoring enabled, a worker whose balance read is a number
\* below min_points_threshold is not at the start of generation: it is
\* paused, still holds the task, which is neither completed nor failed,
\* and its next step appends that task to the queue and records nothing
C3_CreditGate ==
    /\ [](\A w \in Windows :
            (enabled /\ points_balance[w] # NoPoints
                /\ points_balance[w] < min_points_threshold) =>
                /\ pc[w] = "requeue"
                /\ status[w] = "paused"
                /\ held[w] = task[w]
                /\ task[w] \in Tasks \ Recorded)
    /\ [][\A w \in Windows :
            (pc[w] = "requeue" /\ pc'[w] # "requeue") =>
                /\ queue' = Append(queue, task[w])
                /\ completed_tasks' = completed_tasks
                /\ failed_tasks' = failed_tasks
                /\ status'[w] = "paused"]_vars

C3_Witness ==
    \E w \in Windows :
        /\ pc[w] = "requeue"
        /\ points_balance[w] = min_points_threshold - 1

\* C4: a window that does not come up is restarted a bounded number of
\* times: the failed restarts it has made since it was last up stay below
\* MaxRestarts
C4_RestartsBounded == \A w \in Windows : restarts[w] < MaxRestarts

\* C5: the status is one of the four values, and a window has a
\* current_task exactly when its status is working
C5_StatusAgreesWithTask ==
    \A w \in Windows :
        /\ status[w] \in StatusValues
        /\ current_task[w] # NoTask <=> status[w] = "working"

\* C6: two windows never share a Playwright instance, a window has at
\* most one live instance, and after _cleanup_window it has none
C6_OwnPlaywrightInstance ==
    /\ \A w, v \in Windows :
          (w # v /\ playwright_instance[w] # NoPlaywright) =>
              playwright_instance[w] # playwright_instance[v]
    /\ \A w \in Windows :
          Cardinality({i \in pw_live : i[1] = w}) <= 1
    /\ \A w \in Windows :
          pc[w] = "ended" => playwright_instance[w] = NoPlaywright

\* C7: a worker asks the queue for a task only when it holds none whose
\* outcome is open, and with monitoring enabled it starts generation only
\* after the credit check was made for that task
C7_OneTaskAtATime ==
    \A w \in Windows :
        /\ pc[w] \in {"loop", "get_task"} => held[w] = NoTask
        /\ (pc[w] = "generate" /\ enabled) => checked[w]
        /\ pc[w] = "generate" => held[w] = task[w] /\ task[w] # NoTask

\* a worker is about to generate after a restart inside the iteration
C7_Witness ==
    \E w \in Windows :
        /\ pc[w] = "generate"
        /\ enabled
        /\ status[w] = "idle"
        /\ Len(completed_tasks) + Len(failed_tasks) > 0

(***************************************************************************)
(* Properties of PointsMonitor, checked under SpecPM                       *)
(***************************************************************************)
\* what a call that has looked into the cache found there
Found(t) == pm_had[t][1]
FoundFresh(t) ==
    Found(t) # NoEntry /\ pm_time[t] - Found(t)[2] < _cache_expiry_seconds
FoundStale(t) ==
    Found(t) # NoEntry /\ pm_time[t] - Found(t)[2] >= _cache_expiry_seconds

\* a call answers from the cache exactly when it found an entry younger
\* than the expiry, and then returns that entry's balance without scraping
CachedExactlyWhenFresh ==
    \A t \in Threads :
        pm_had[t] # <<>> =>
            /\ pm_how[t] = "cached" <=> FoundFresh(t)
            /\ pm_how[t] = "cached" =>
                   pm_result[t] = Found(t)[1] /\ pm_pc[t] = "return"

\* the step that finds an entry of the expiry's age or older deletes it
StaleEntryDeleted ==
    \A t \in Threads :
        (/\ pm_pc[t] = "cache_check" /\ pm_pc'[t] # "cache_check"
         /\ cache[pm_page[t]] # NoEntry
         /\ pm_time[t] - cache[pm_page[t]][2] >= _cache_expiry_seconds)
        => cache'[pm_page[t]] = NoEntry

\* C8 as stated: cached answer exactly when a fresh entry exists; a stale
\* entry is deleted and the call returns only after a fresh scrape; a
\* cached value is a balance, read from the page that has the key's id
C8_CachedReads ==
    /\ [](/\ CachedExactlyWhenFresh
          /\ \A t \in Threads :
                (pm_had[t] # <<>> /\ FoundStale(t) /\ pm_pc[t] = "return")
                    => pm_how[t] = "scraped"
          /\ \A p \in Pages :
                cache[p] # NoEntry =>
                    cache[p][1] # NoPoints /\ cache[p][1] \in scraped_from[p])
    /\ [][StaleEntryDeleted]_vars

\* C8 amended: as C8, but after a stale entry the call returns either
\* after a fresh scrape or with None when the page probe reports access
\* from a foreign thread; and a cached value is a balance read under the
\* key's id, from the page that has the id now or an earlier one
C8_CachedReadsBestEffort ==
    /\ [](/\ CachedExactlyWhenFresh
          /\ \A t \in Threads :
                (pm_had[t] # <<>> /\ FoundStale(t) /\ pm_pc[t] = "return")
                    => \/ pm_how[t] = "scraped"
                       \/ pm_how[t] = "probe_abort"
                             /\ pm_result[t] = NoPoints
          /\ \A p \in Pages :
                cache[p] # NoEntry =>
                    cache[p][1] # NoPoints /\ cache[p][1] \in scraped_under[p])
    /\ [][StaleEntryDeleted]_vars

\* one call has answered from the cache while another, later one found
\* the entry stale, scraped and stored the new read
C8_Witness ==
    \E t, u \in Threads :
        /\ pm_pc[t] = "return" /\ pm_how[t] = "cached"
        /\ pm_had[u] # <<>> /\ FoundStale(u)
        /\ pm_pc[u] = "return" /\ pm_how[u] = "scraped"
        /\ cache[pm_page[u]] = <<pm_result[u], pm_time[u]>>

\* the part of check_points and wait_for_points_refresh that scrapes or
\* reloads the page: lines 88-102 and 401-403
InScrapeSection(t) ==
    pm_pc[t] \in {"scrape", "cache_write_lock", "cache_write", "unlock",
                  "reload"}

\* C9: at most one thread is in the scrape / reload section, and it holds
\* the check lock; a thread that reads or writes the cache holds the cache
\* lock, and the cache changes only in a step of the cache lock's holder
C9_PointsCheckThreadSafe ==
    /\ [](/\ Cardinality({t \in Threads : InScrapeSection(t)}) <= 1
          /\ \A t \in Threads : InScrapeSection(t) => check_lock = t
          /\ \A t \in Threads :
                pm_pc[t] \in {"cache_check", "cache_write"}
                    => cache_lock = t)
    /\ [][cache' # cache =>
            \E t \in Threads :
                /\ cache_lock = t
                /\ pm_pc[t] \in {"cache_check", "cache_write"}
                /\ pm_pc'[t] # pm_pc[t]]_vars

\* one thread scrapes while the other waits for the check lock and the
\* cache already holds an entry
C9_Witness ==
    \E t, u \in Threads :
        /\ pm_pc[t] = "scrape"
        /\ pm_pc[u] \in {"check_lock", "reload_lock"}
        /\ \E p \in Pages : cache[p] # NoEntry

(***************************************************************************)
(* Spreadsheet marking, checked under Spec                                 *)
(***************************************************************************)
\* C10: once the run is over and every worker thread has ended, the row
\* of every completed task carries the status text
C10_CompletedRowsMarked ==
    (cpc = "done" /\ \A w \in Windows : pc[w] \in {"exited", "ended"}) =>
        Range(completed_tasks) \subseteq excel

(***************************************************************************)
(* Properties of the coordinator and of the worker's ends, under Spec      *)
(***************************************************************************)
\* line 537: the coordinator finds the tasks completed
DeclaresCompletion ==
    /\ cpc = "decide" /\ cpc' = "done"
    /\ stats_pending = 0
    /\ \A w \in active_windows : status[w] = "idle"

\* C12: the step in which the coordinator declares all tasks completed is
\* taken only when the queue is empty and no worker holds a dequeued task
\* whose outcome is not recorded
C12_CompletionOnlyWhenDone ==
    [][DeclaresCompletion =>
          /\ queue = <<>>
          /\ \A w \in Windows : held[w] = NoTask]_vars

\* C13: under fair scheduling the coordinator leaves its wait loop, and
\* when it leaves it with tasks pending every window is in error or paused
C13_CoordinatorReturns ==
    /\ <>(cpc = "done")
    /\ [][(cpc = "decide" /\ cpc' = "done" /\ queue # <<>>) =>
            \A w \in Windows : status[w] \in {"error", "paused"}]_vars

\* C14: a window whose loop raised in max_consecutive_errors task-handling
\* iterations in a row, none handled without a raise in between, has left
\* its loop: it is cleaning up or has ended, and takes no further task
C14_StoppedAfterConsecutiveErrors ==
    \A w \in Windows :
        raised[w] >= max_consecutive_errors => pc[w] \in {"cleanup", "ended"}

\* C15: a worker thread that has ended, by whichever path (run stopped,
\* too many errors, initial setup failed), has left its window with the page
\* closed, the browser connection closed and released, and its playwright
\* instance stopped
C15_CleanedUpOnExit ==
    \A w \in Windows :
        pc[w] \in {"exited", "ended"} =>
            /\ page[w] # "open"
            /\ browser[w] # "open"
            /\ playwright_instance[w] \notin pw_live

\* C18: a paused window stays paused whatever step is taken, by its worker,
\* another worker or the coordinator, and its worker neither goes to
\* get_task nor comes to hold a task it did not hold
C18_PausedStaysPaused ==
    [][\A w \in Windows :
          status[w] = "paused" =>
              /\ status'[w] = "paused"
              /\ pc'[w] # "get_task"
              /\ held'[w] \in {held[w], NoTask}]_vars

\* a paused window is at the top of its loop while the run goes on and a
\* task waits in the queue
C18_Witness ==
    \E w \in Windows :
        /\ status[w] = "paused"
        /\ pc[w] = "loop"
        /\ running
        /\ queue # <<>>

\* the credit gate let the window through without a balance: monitoring is
\* disabled, or check_points returned None
PassesUnread(w) ==
    /\ pc[w] = "check_points"
    /\ pc'[w] # "check_points"
    /\ ~enabled \/ points_balance'[w] = NoPoints

\* C17: when monitoring is disabled or check_points returns None, the worker
\* leaves the window's status as it is, not paused, and goes on to
\* generation with the task it dequeued still in its hands
C17_UnreadBalanceDoesNotPause ==
    [][\A w \in Windows :
          PassesUnread(w) =>
              /\ pc'[w] = "generate"
              /\ status'[w] = status[w]
              /\ status'[w] # "paused"
              /\ task'[w] = task[w]
              /\ task[w] # NoTask
              /\ held'[w] = task[w]
              /\ queue' = queue]_vars

\* a window is about to generate after check_points returned None
C17_Witness ==
    \E w \in Windows :
        /\ pc[w] = "generate"
        /\ enabled
        /\ checked[w]
        /\ points_balance[w] = NoPoints
        /\ task[w] # NoTask

(***************************************************************************)
(* Properties of one _setup_window call, checked under SpecSetup           *)
(***************************************************************************)
\* what a returned call has left behind, for the window it was made for
SetupOutcomeRight ==
    \A w \in Windows :
        InSetup(w) =>
            /\ setup_result = "True" =>
                   /\ passed = SetupSteps
                   /\ status[w] = "idle"
            /\ setup_result = "False" =>
                   /\ attempts = max_retries
                   /\ status[w] = "error"
                   /\ error_count[w] = entry_error_count + 1

\* C16: _setup_window makes at most max_retries passes and returns; it
\* returns True only from a pass that opened the browser, connected, found
\* a context, got the page and passed the title check, with status "idle";
\* when every pass failed it returns False with status "error" and
\* error_count one above its value at the call, however the passes failed
C16_SetupBoundedAndCounted ==
    /\ [](attempts <= max_retries)
    /\ [](setup_pc = "returned" <=> setup_result # "none")
    /\ []SetupOutcomeRight
    /\ <>(setup_pc = "returned")

\* a call returned False after passes that failed by return value and
\* passes that failed by exception
C16_Witness ==
    /\ setup_pc = "returned"
    /\ setup_result = "False"
    /\ attempts = max_retries
    /\ max_retries >= 2
    /\ failed_by = {"value", "exception"}

(***************************************************************************)
(* Properties of get_unprocessed_prompts, checked under SpecXL             *)
(***************************************************************************)
\* C11: while a load runs, no row of its list lies before start_row, has
\* a status cell equal to the status text or to the problem marker, or is
\* a row for which mark_prompt_as_processed has written the status text
C11_ResumeSkipsProcessed ==
    xl_pc = "scan" =>
        \A i \in 1..Len(unprocessed_prompts) :
            LET f == unprocessed_prompts[i][2]
                r == unprocessed_prompts[i][3]
            IN  /\ r >= start_row
                /\ sheets[f][r][2] \notin {status_text, ProblemMarker}
                /\ <<f, r>> \notin marked

\* row r1 of file f1 is read before row r2 of file f2
Earlier(f1, r1, f2, r2) == f1 < f2 \/ (f1 = f2 /\ r1 < r2)

\* the row carries the same prompt text, once stripped, and its status
\* cell holds the status text or the problem marker
MarkedWithText(f, r, text) ==
    /\ notna(sheets[f][r][1])
    /\ strip(sheets[f][r][1]) = text
    /\ sheets[f][r][2] \in {status_text, ProblemMarker}

\* no two rows of the list carry the same stripped prompt text
UniquePrompts ==
    \A i, j \in 1..Len(unprocessed_prompts) :
        i # j => unprocessed_prompts[i][1] # unprocessed_prompts[j][1]

\* no row of the list comes after a row, numbered first_row or higher,
\* that is marked processed and carries the same text
NotReturnedAfterMarked(first_row) ==
    \A i \in 1..Len(unprocessed_prompts) :
        \A f \in Files :
            \A r \in first_row..Len(sheets[f]) :
                Earlier(f, r, unprocessed_prompts[i][2],
                        unprocessed_prompts[i][3])
                    => ~MarkedWithText(f, r, unprocessed_prompts[i][1])

\* C19: the returned list holds every stripped prompt text at most once
\* across all files, and no row of it follows a row, in the same or an
\* earlier file, that is marked processed and has the same text
C19_GlobalDeduplication ==
    xl_pc \in {"scan", "loaded"} =>
        UniquePrompts /\ NotReturnedAfterMarked(1)

\* C19 as it holds: the earlier marked row counts only when it lies at or
\* after start_row, the rows before start_row being skipped unread
C19_GlobalDeduplicationFromStartRow ==
    xl_pc \in {"scan", "loaded"} =>
        UniquePrompts /\ NotReturnedAfterMarked(start_row)

\* a load returned a list although a later unmarked row repeats the text of
\* an earlier marked row at or after start_row, and the text is not in
\* the list
C19_Witness ==
    /\ xl_pc = "loaded"
    /\ unprocessed_prompts # <<>>
    /\ \E f1 \in Files, f2 \in Files :
           \E r1 \in start_row..Len(sheets[f1]),
              r2 \in start_row..Len(sheets[f2]) :
               /\ Earlier(f1, r1, f2, r2)
               /\ notna(sheets[f2][r2][1])
               /\ MarkedWithText(f1, r1, strip(sheets[f2][r2][1]))
               /\ sheets[f2][r2][2] = NaN
               /\ <<f1, r1>> \notin marked
               /\ \A i \in 1..Len(unprocessed_prompts) :
                      unprocessed_prompts[i][1] # strip(sheets[f2][r2][1])

(***************************************************************************)
(* Properties of SimpleDreaminaManager's parallel mode, under SpecSD       *)
(***************************************************************************)
\* every task is in the list once, or in the hands of one worker, or
\* recorded once, and never in two of these
TaskInOnePlace ==
    \A t \in Range(prompts_data_list) :
        Count(task_queue, t)
          + Cardinality({w \in browser_ids : sd_task[w] = t})
          + Cardinality({r \in recorded : r[2] = t}) = 1

\* worker w takes a task in this step
Pops(w) == sd_pc[w] = "pop" /\ sd_pc'[w] = "check"

\* a task is handed out from the head of the list, to a worker that has
\* not given it back
HandedInListOrder ==
    \A w \in browser_ids :
        Pops(w) =>
            /\ sd_task'[w] = Head(task_queue)
            /\ task_queue' = Tail(task_queue)
            /\ <<w, sd_task'[w]>> \notin gave

\* a task given back goes to the head of the list
GivenBackToHead ==
    \A w \in browser_ids :
        (sd_pc[w] = "give_back" /\ sd_pc'[w] # "give_back") =>
            /\ task_queue' # <<>>
            /\ Head(task_queue') = sd_task[w]
            /\ Tail(task_queue') = task_queue

\* the worker that gave a task back recorded no outcome for it
NotRecordedByGiver ==
    \A g \in gave : \A o \in {"success", "failed"} :
        <<g[1], g[2], o>> \notin recorded

\* every task given back and not handed out again is the task the next
\* pop hands out
NextHandedIsGivenBack ==
    \A w \in browser_ids :
        Pops(w) => \A i \in 1..Len(given_back) :
                       given_back[i] = sd_task'[w]

\* the tasks given back and not handed out again are the front of the
\* list, the one given back last at its head
GivenBackFirst ==
    /\ Len(given_back) <= Len(task_queue)
    /\ SubSeq(task_queue, 1, Len(given_back)) = given_back

====
